---- MODULE Spec2Model ----
(***************************************************************************)
(* Perceval backends GoogleHits and Jenkins                                *)
(* (perceval/backends/core/googlehits.py, perceval/backends/core/jenkins.py)*)
(*                                                                         *)
(* One connector object is constructed, a live fetch run is driven by the  *)
(* caller pulling items from the generator, and afterwards the archive     *)
(* written by that run may be replayed by a second run.                    *)
(***************************************************************************)
EXTENDS Integers, Sequences, FiniteSets, TLC

VARIABLES
    backend,        \* "jenkins" or "googlehits": the connector class
    user,           \* Jenkins.__init__ argument
    api_token,      \* Jenkins.__init__ argument
    blacklist_ids,  \* Jenkins.__init__ argument ({} stands for None and [])
    keywords,       \* GoogleHits.__init__ argument: a list of strings
    pc,             \* position of the connector / of its generator
    run,            \* "none", "live" or "replay"
    client,         \* self.client
    error,          \* class of the exception that left the connector
    jobs,           \* fetch_items local: projects['jobs'] (job names)
    i,              \* fetch_items: position of the for loop in jobs (1-based)
    builds,         \* fetch_items local: builds of the job being walked
    b,              \* fetch_items: position of the inner loop in builds
    skipped,        \* self.summary.skipped
    njobs,          \* fetch_items local
    nbuilds,        \* fetch_items local
    out,            \* the items handed to the caller in this run
    pulls,          \* number of next() calls of the caller in this run
    requests,       \* HTTP requests issued in this run, in order
    inflight,       \* HTTP requests issued and not yet answered
    visits,         \* what each visited job's get_builds call returned / raised
    archive,        \* the archive: set of <<request signature, response>>
    live_out,       \* the items of the live run, kept when the replay starts
    clock           \* datetime_utcnow()

vars == <<backend, user, api_token, blacklist_ids, keywords, pc, run, client,
          error, jobs, i, builds, b, skipped, njobs, nbuilds, out, pulls,
          requests, inflight, visits, archive, live_out, clock>>

(***************************************************************************)
(* Bounds                                                                  *)
(***************************************************************************)
MaxJobs == 2        \* longest root listing
MaxBuilds == 2      \* most builds in one job's payload
MaxKeywords == 2    \* longest keyword list
MaxKwLen == 1       \* longest keyword
MaxText == 2        \* longest text of the resultStats marker
MaxClock == 1       \* latest instant of the clock

(***************************************************************************)
(* Program constants                                                       *)
(***************************************************************************)
CATEGORY_BUILD == "build"
CATEGORY_HITS == "google_hits"

None == "None"
NoAuth == <<>>
JobNames == {"A", "B", "C"}
Users == {None, "", "u"}
Tokens == {None, "", "t"}
Statuses == {404, 500}
KwChars == {" ", "a"}
TextChars == {",", ".", "1", "2", "a"}
Digits == {"0", "1", "2", "3", "4", "5", "6", "7", "8", "9"}
Whitespace == {" "}

\* Python truthiness of None / str, of a list, of a payload text
Truthy(x) == x \notin {None, ""}

RECURSIVE SeqsUpTo(_, _)
SeqsUpTo(S, n) ==
    IF n = 0 THEN {<<>>}
    ELSE LET shorter == SeqsUpTo(S, n - 1)
         IN  shorter \cup {Append(s, x) : s \in shorter, x \in S}

\* a root listing names each job once
Listings ==
    {l \in SeqsUpTo(JobNames, MaxJobs) :
        \A p, q \in 1..Len(l) : p # q => l[p] # l[q]}

(***************************************************************************)
(* Responses.  type: "ok" (a response with a body), "HTTPError" (with a    *)
(* status), "RetryError" (retry budget exhausted), "ArchiveError" (no      *)
(* archived response), "none" (get_builds returned None).                  *)
(* A body is of kind "empty" (''), "garbage" (not JSON), "nokey" (JSON     *)
(* without the expected key), "jobs" (root listing: names), "builds"       *)
(* (n builds), "html" (a page whose marker is present or not, with text).  *)
(***************************************************************************)
Resp(type, status, kind, n, names, marker, text) ==
    [type |-> type, status |-> status, kind |-> kind, n |-> n,
     names |-> names, marker |-> marker, text |-> text]

Ok(kind, n, names, marker, text) == Resp("ok", 200, kind, n, names, marker, text)
HTTPError(status) == Resp("HTTPError", status, "empty", 0, <<>>, FALSE, <<>>)
RetryError == Resp("RetryError", 0, "empty", 0, <<>>, FALSE, <<>>)
ArchiveError == Resp("ArchiveError", 0, "empty", 0, <<>>, FALSE, <<>>)
NoData == Resp("none", 0, "empty", 0, <<>>, FALSE, <<>>)

Failures == {HTTPError(s) : s \in Statuses} \cup {RetryError}

JobsResponses ==
    Failures \cup {Ok("garbage", 0, <<>>, FALSE, <<>>)}
             \cup {Ok("jobs", 0, l, FALSE, <<>>) : l \in Listings}

BuildsResponses ==
    Failures \cup {Ok(k, 0, <<>>, FALSE, <<>>) : k \in {"empty", "garbage", "nokey"}}
             \cup {Ok("builds", n, <<>>, FALSE, <<>>) : n \in 0..MaxBuilds}

HitsResponses ==
    Failures \cup {Ok("html", 0, <<>>, FALSE, <<>>)}
             \cup {Ok("html", 0, <<>>, TRUE, t) : t \in SeqsUpTo(TextChars, MaxText)}

\* the builds a payload of n builds of job name decodes to
BuildsOf(name, n) ==
    [k \in 1..n |-> [url |-> <<name, k>>, number |-> k, timestamp |-> 1000 * k]]

(***************************************************************************)
(* Archive (collaborator): store on a live fetch, retrieve on a replay     *)
(***************************************************************************)
Store(arch, sig, resp) ==
    {e \in arch : e[1] # sig} \cup {<<sig, resp>>}

Retrieve(arch, sig) ==
    IF \E e \in arch : e[1] = sig
    THEN (CHOOSE e \in arch : e[1] = sig)[2]
    ELSE ArchiveError

(***************************************************************************)
(* Jenkins                                                                 *)
(***************************************************************************)
\* a check that forgets the token given without a user
JenkinsAuthErrorOneWay(u, t) == Truthy(u) /\ ~Truthy(t)

\* Jenkins.__init__: the authentication check
JenkinsAuthError(u, t) ==
    (Truthy(u) /\ ~Truthy(t)) \/ (~Truthy(u) /\ Truthy(t))

\* JenkinsClient.__init__: self.auth
ClientAuth(u, t) == IF Truthy(u) /\ Truthy(t) THEN <<u, t>> ELSE NoAuth

NoClient ==
    [built |-> FALSE, auth |-> NoAuth, blacklist_jobs |-> {}, from_archive |-> FALSE]

\* a client that is always built for a live run
init_client_live(from_archive) ==
    [built |-> TRUE,
     auth |-> IF backend = "jenkins" THEN ClientAuth(user, api_token) ELSE NoAuth,
     blacklist_jobs |-> blacklist_ids,
     from_archive |-> FALSE]

\* Jenkins._init_client / GoogleHits._init_client
init_client(from_archive) ==
    [built |-> TRUE,
     auth |-> IF backend = "jenkins" THEN ClientAuth(user, api_token) ELSE NoAuth,
     blacklist_jobs |-> blacklist_ids,
     from_archive |-> from_archive]

\* a deny-list test that never matches
NeverBlacklisted(blacklist_jobs, job_name) == FALSE

\* JenkinsClient.get_builds: the deny-list test
IsBlacklisted(blacklist_jobs, job_name) ==
    blacklist_jobs # {} /\ job_name \in blacklist_jobs

\* an except clause that skips the job on every status
SkipOnAnyHTTPError(status) == TRUE

\* fetch_items: the except clause skips the job on this status
SkipOnHTTPError(status) == status = 500

\* a skip that is not counted
count_skipped_forgotten(n) == n

\* fetch_items: self.summary.skipped += 1
count_skipped(n) == n + 1

\* HttpClient.fetch: the request goes to the network unless the run replays
SendRequest(c, sig, pos) ==
    IF c.from_archive
    THEN UNCHANGED <<requests, inflight>>
    ELSE /\ requests' = Append(requests, [sig |-> sig, auth |-> c.auth, pos |-> pos])
         /\ inflight' = {sig}

\* HttpClient.fetch: the responses the call can end with
Responses(sig, network) ==
    IF client.from_archive THEN {Retrieve(archive, sig)} ELSE network

\* HttpClient.fetch: a live run records the response it returns
Record(sig, resp) ==
    /\ inflight' = {}
    /\ archive' = IF ~client.from_archive /\ resp.type = "ok"
                  THEN Store(archive, sig, resp)
                  ELSE archive

JenkinsInit ==
    /\ backend = "jenkins"
    /\ pc = "new"
    /\ IF JenkinsAuthError(user, api_token)
       THEN pc' = "config_error" /\ error' = "BackendError"
       ELSE pc' = "constructed" /\ error' = error
    /\ UNCHANGED <<backend, user, api_token, blacklist_ids, keywords, run, client,
                   jobs, i, builds, b, skipped, njobs, nbuilds, out, pulls,
                   requests, inflight, visits, archive, live_out, clock>>

\* a fetch that asks for the root listing when it is called
fetch_eager ==
    /\ pc = "constructed"
    /\ run = "none"
    /\ run' = "live"
    /\ IF backend = "jenkins"
       THEN /\ client' = init_client(FALSE)
            /\ SendRequest(client', <<"jobs">>, 0)
            /\ pc' = "jobs_req"
       ELSE /\ pc' = "created"
            /\ UNCHANGED <<client, requests, inflight>>
    /\ UNCHANGED <<backend, user, api_token, blacklist_ids, keywords,
                   error, jobs, i, builds, b, skipped, njobs, nbuilds, out, pulls,
                   visits, archive, live_out, clock>>

\* Jenkins.fetch / GoogleHits.fetch: returns the generator; nothing has run yet
fetch ==
    /\ pc = "constructed"
    /\ run = "none"
    /\ pc' = "created"
    /\ run' = "live"
    /\ UNCHANGED <<backend, user, api_token, blacklist_ids, keywords, client,
                   error, jobs, i, builds, b, skipped, njobs, nbuilds, out, pulls,
                   requests, inflight, visits, archive, live_out, clock>>

\* first next() on a Jenkins generator: client, counters, get_jobs request
StartJenkins ==
    /\ backend = "jenkins"
    /\ pc = "created"
    /\ pulls' = pulls + 1
    /\ client' = init_client(run = "replay")
    /\ skipped' = 0
    /\ njobs' = 0
    /\ nbuilds' = 0
    /\ SendRequest(client', <<"jobs">>, 0)
    /\ pc' = "jobs_req"
    /\ UNCHANGED <<backend, user, api_token, blacklist_ids, keywords, run, error,
                   jobs, i, builds, b, out, visits, archive, live_out, clock>>

\* get_jobs returns or raises; json.loads and projects['jobs']
get_jobs_response ==
    /\ pc = "jobs_req"
    /\ \E resp \in Responses(<<"jobs">>, JobsResponses) :
        /\ Record(<<"jobs">>, resp)
        /\ IF resp.type = "ok" /\ resp.kind = "jobs"
           THEN /\ jobs' = resp.names
                /\ i' = 1
                /\ pc' = "loop"
                /\ error' = error
           ELSE /\ pc' = "raised"
                /\ error' = IF resp.type # "ok" THEN resp.type
                            ELSE IF resp.kind = "garbage" THEN "ValueError"
                            ELSE "KeyError"
                /\ UNCHANGED <<jobs, i>>
    /\ UNCHANGED <<backend, user, api_token, blacklist_ids, keywords, run, client,
                   builds, b, skipped, njobs, nbuilds, out, pulls, requests,
                   visits, live_out, clock>>

\* head of the for loop: the end of the walk, or get_builds of the next job
VisitJob ==
    /\ pc = "loop"
    /\ IF i > Len(jobs)
       THEN /\ pc' = "done"
            /\ UNCHANGED <<i, skipped, visits, requests, inflight>>
       ELSE IF IsBlacklisted(client.blacklist_jobs, jobs[i])
       THEN \* get_builds returns None: "if not raw_builds"
            /\ visits' = Append(visits, [name |-> jobs[i], resp |-> NoData])
            /\ skipped' = count_skipped(skipped)
            /\ i' = i + 1
            /\ pc' = "loop"
            /\ UNCHANGED <<requests, inflight>>
       ELSE /\ SendRequest(client, <<"job", jobs[i]>>, i)
            /\ pc' = "builds_req"
            /\ UNCHANGED <<i, skipped, visits>>
    /\ UNCHANGED <<backend, user, api_token, blacklist_ids, keywords, run, client,
                   error, jobs, builds, b, njobs, nbuilds, out, pulls, archive,
                   live_out, clock>>

\* get_builds returns or raises; the rest of the loop body up to the first yield
get_builds_response ==
    /\ pc = "builds_req"
    /\ \E resp \in Responses(<<"job", jobs[i]>>, BuildsResponses) :
        /\ Record(<<"job", jobs[i]>>, resp)
        /\ visits' = Append(visits, [name |-> jobs[i], resp |-> resp])
        /\ IF resp.type = "HTTPError" /\ SkipOnHTTPError(resp.status)
           THEN /\ skipped' = count_skipped(skipped)
                /\ i' = i + 1
                /\ pc' = "loop"
                /\ UNCHANGED <<error, builds, b, njobs, out>>
           ELSE IF resp.type # "ok"
           THEN /\ pc' = "raised"
                /\ error' = resp.type
                /\ UNCHANGED <<i, skipped, builds, b, njobs, out>>
           ELSE IF resp.kind = "empty"
           THEN /\ skipped' = count_skipped(skipped)
                /\ i' = i + 1
                /\ pc' = "loop"
                /\ UNCHANGED <<error, builds, b, njobs, out>>
           ELSE IF resp.kind = "garbage"
           THEN /\ skipped' = count_skipped(skipped)
                /\ i' = i + 1
                /\ pc' = "loop"
                /\ UNCHANGED <<error, builds, b, njobs, out>>
           ELSE IF resp.kind # "builds"
           THEN /\ pc' = "raised"
                /\ error' = "KeyError"
                /\ UNCHANGED <<i, skipped, builds, b, njobs, out>>
           ELSE /\ builds' = BuildsOf(jobs[i], resp.n)
                /\ IF resp.n = 0
                   THEN /\ njobs' = njobs + 1
                        /\ i' = i + 1
                        /\ pc' = "loop"
                        /\ UNCHANGED <<b, out>>
                   ELSE /\ b' = 1
                        /\ out' = Append(out, builds'[1])
                        /\ pc' = "yielded"
                        /\ UNCHANGED <<i, njobs>>
                /\ UNCHANGED <<error, skipped>>
    /\ UNCHANGED <<backend, user, api_token, blacklist_ids, keywords, run, client,
                   jobs, nbuilds, pulls, requests, live_out, clock>>

\* next() on a generator suspended at "yield build"
Resume ==
    /\ backend = "jenkins"
    /\ pc = "yielded"
    /\ pulls' = pulls + 1
    /\ nbuilds' = nbuilds + 1
    /\ IF b < Len(builds)
       THEN /\ b' = b + 1
            /\ out' = Append(out, builds[b + 1])
            /\ pc' = "yielded"
            /\ UNCHANGED <<i, njobs>>
       ELSE /\ njobs' = njobs + 1
            /\ i' = i + 1
            /\ pc' = "loop"
            /\ UNCHANGED <<b, out>>
    /\ UNCHANGED <<backend, user, api_token, blacklist_ids, keywords, run, client,
                   error, jobs, builds, skipped, requests, inflight, visits,
                   archive, live_out, clock>>

(***************************************************************************)
(* GoogleHits                                                              *)
(***************************************************************************)
\* str.strip()
RECURSIVE lstrip(_)
lstrip(s) ==
    IF s # <<>> /\ Head(s) \in Whitespace THEN lstrip(Tail(s)) ELSE s

RECURSIVE rstrip(_)
rstrip(s) ==
    IF s # <<>> /\ s[Len(s)] \in Whitespace
    THEN rstrip(SubSeq(s, 1, Len(s) - 1))
    ELSE s

strip(s) == rstrip(lstrip(s))

\* GoogleHits.__init__: the keywords check
KeywordsError(kws) == Len(kws) = 1 /\ strip(kws[1]) = <<>>

\* ' '.join(list)
RECURSIVE join(_)
join(kws) ==
    IF kws = <<>> THEN <<>>
    ELSE IF Len(kws) = 1 THEN kws[1]
    ELSE kws[1] \o <<" ">> \o join(Tail(kws))

\* GoogleHitsClient.hits: the query string of the request
query_str(kws) == IF Len(kws) = 1 THEN kws[1] ELSE join(kws)

\* str.replace(ch, '')
replace(s, ch) == SelectSeq(s, LAMBDA c : c # ch)

\* re.search(r'\d+', s): the first run of digits, <<>> when there is no match
RECURSIVE leading_digits(_)
leading_digits(s) ==
    IF s # <<>> /\ Head(s) \in Digits
    THEN <<Head(s)>> \o leading_digits(Tail(s))
    ELSE <<>>

RECURSIVE re_search_digits(_)
re_search_digits(s) ==
    IF s = <<>> THEN <<>>
    ELSE IF Head(s) \in Digits THEN leading_digits(s)
    ELSE re_search_digits(Tail(s))

DigitValue(c) ==
    CASE c = "0" -> 0 [] c = "1" -> 1 [] c = "2" -> 2 [] c = "3" -> 3
      [] c = "4" -> 4 [] c = "5" -> 5 [] c = "6" -> 6 [] c = "7" -> 7
      [] c = "8" -> 8 [] c = "9" -> 9

\* int(str)
RECURSIVE int(_)
int(s) ==
    IF s = <<>> THEN 0
    ELSE 10 * int(SubSeq(s, 1, Len(s) - 1)) + DigitValue(s[Len(s)])

\* str(fetched_on)
str(x) == <<x>>

\* perceval.backend.uuid: a digest of the ordered arguments
uuid(args) == args

\* GoogleHits.__parse_hits: the exception it raises ("none": it returns)
parse_hits_error(hit_raw) ==
    IF ~hit_raw.marker THEN "AttributeError"
    ELSE LET hit_string == replace(replace(hit_raw.text, ","), ".")
         IN  IF hit_string = <<>> THEN "none"
             ELSE IF re_search_digits(hit_string) = <<>> THEN "AttributeError"
             ELSE "none"

\* GoogleHits.__parse_hits: the item it returns
parse_hits(hit_raw, now, kws) ==
    LET hit_string == replace(replace(hit_raw.text, ","), ".")
        fetched_on == now
        id_args == Append(kws, str(fetched_on))
    IN  [fetched_on |-> fetched_on,
         id |-> uuid(id_args),
         keywords |-> kws,
         type |-> "googleSearchHits",
         hits |-> IF hit_string = <<>> THEN 0
                  ELSE int(re_search_digits(hit_string))]

\* Jenkins.metadata_id, GoogleHits.metadata_id
metadata_id(item) == IF backend = "jenkins" THEN item.url ELSE item.id

\* Jenkins.metadata_category, GoogleHits.metadata_category
metadata_category(item) ==
    IF backend = "jenkins" THEN CATEGORY_BUILD ELSE CATEGORY_HITS

GoogleHitsInit ==
    /\ backend = "googlehits"
    /\ pc = "new"
    /\ IF KeywordsError(keywords)
       THEN pc' = "config_error" /\ error' = "BackendError"
       ELSE pc' = "constructed" /\ error' = error
    /\ UNCHANGED <<backend, user, api_token, blacklist_ids, keywords, run, client,
                   jobs, i, builds, b, skipped, njobs, nbuilds, out, pulls,
                   requests, inflight, visits, archive, live_out, clock>>

\* first next() on a GoogleHits generator: client, then client.hits(keywords)
StartHits ==
    /\ backend = "googlehits"
    /\ pc = "created"
    /\ pulls' = pulls + 1
    /\ client' = init_client(run = "replay")
    /\ skipped' = 0
    /\ SendRequest(client', <<"search", query_str(keywords)>>, 0)
    /\ pc' = "hits_req"
    /\ UNCHANGED <<backend, user, api_token, blacklist_ids, keywords, run, error,
                   jobs, i, builds, b, njobs, nbuilds, out, visits, archive,
                   live_out, clock>>

\* client.hits returns or raises; __parse_hits; yield hits
hits_response ==
    /\ pc = "hits_req"
    /\ \E resp \in Responses(<<"search", query_str(keywords)>>, HitsResponses) :
        /\ Record(<<"search", query_str(keywords)>>, resp)
        /\ visits' = Append(visits, [name |-> "search", resp |-> resp])
        /\ IF resp.type # "ok"
           THEN /\ pc' = "raised"
                /\ error' = resp.type
                /\ out' = out
           ELSE IF parse_hits_error(resp) # "none"
           THEN /\ pc' = "raised"
                /\ error' = parse_hits_error(resp)
                /\ out' = out
           ELSE /\ out' = Append(out, parse_hits(resp, clock, keywords))
                /\ pc' = "yielded"
                /\ error' = error
    /\ UNCHANGED <<backend, user, api_token, blacklist_ids, keywords, run, client,
                   jobs, i, builds, b, skipped, njobs, nbuilds, pulls, requests,
                   live_out, clock>>

\* next() on a GoogleHits generator suspended at "yield hits": it ends
ResumeHits ==
    /\ backend = "googlehits"
    /\ pc = "yielded"
    /\ pulls' = pulls + 1
    /\ pc' = "done"
    /\ UNCHANGED <<backend, user, api_token, blacklist_ids, keywords, run, client,
                   error, jobs, i, builds, b, skipped, njobs, nbuilds, out,
                   requests, inflight, visits, archive, live_out, clock>>

\* Backend.fetch_from_archive: a second generator, over the archive of the live run
fetch_from_archive ==
    /\ run = "live"
    /\ pc \in {"done", "raised"}
    /\ run' = "replay"
    /\ pc' = "created"
    /\ live_out' = out
    /\ out' = <<>>
    /\ pulls' = 0
    /\ requests' = <<>>
    /\ visits' = <<>>
    /\ error' = "none"
    /\ jobs' = <<>>
    /\ i' = 0
    /\ builds' = <<>>
    /\ b' = 0
    /\ UNCHANGED <<backend, user, api_token, blacklist_ids, keywords, client,
                   skipped, njobs, nbuilds, inflight, archive, clock>>

\* time passes; the clock is read only by __parse_hits, right after the
\* response arrives, so its progress matters only while a request is pending
Tick ==
    /\ backend = "googlehits"
    /\ pc = "hits_req"
    /\ clock < MaxClock
    /\ clock' = clock + 1
    /\ UNCHANGED <<backend, user, api_token, blacklist_ids, keywords, pc, run,
                   client, error, jobs, i, builds, b, skipped, njobs, nbuilds, out,
                   pulls, requests, inflight, visits, archive, live_out>>

\* the caller abandons the iteration (generator.close())
Close ==
    /\ pc \in {"created", "yielded"}
    /\ pc' = "closed"
    /\ UNCHANGED <<backend, user, api_token, blacklist_ids, keywords, run, client,
                   error, jobs, i, builds, b, skipped, njobs, nbuilds, out, pulls,
                   requests, inflight, visits, archive, live_out, clock>>

Init ==
    /\ \/ /\ backend = "jenkins"
          /\ user \in Users
          /\ api_token \in Tokens
          /\ blacklist_ids \in SUBSET {"A", "B"}
          /\ keywords = <<>>
       \/ /\ backend = "googlehits"
          /\ user = None
          /\ api_token = None
          /\ blacklist_ids = {}
          /\ keywords \in SeqsUpTo(SeqsUpTo(KwChars, MaxKwLen), MaxKeywords)
    /\ pc = "new"
    /\ run = "none"
    /\ client = NoClient
    /\ error = "none"
    /\ jobs = <<>>
    /\ i = 0
    /\ builds = <<>>
    /\ b = 0
    /\ skipped = 0
    /\ njobs = 0
    /\ nbuilds = 0
    /\ out = <<>>
    /\ pulls = 0
    /\ requests = <<>>
    /\ inflight = {}
    /\ visits = <<>>
    /\ archive = {}
    /\ live_out = <<>>
    /\ clock = 0

Next ==
    \/ JenkinsInit
    \/ fetch
    \/ StartJenkins
    \/ get_jobs_response
    \/ VisitJob
    \/ get_builds_response
    \/ Resume
    \/ GoogleHitsInit
    \/ StartHits
    \/ hits_response
    \/ ResumeHits
    \/ fetch_from_archive
    \/ Close
    \/ Tick

Spec == Init /\ [][Next]_vars

(***************************************************************************)
(* Properties                                                              *)
(***************************************************************************)
IsJenkins == backend = "jenkins"
IsHits == backend = "googlehits"

\* the root listing has been obtained in this run
Walking == pc \in {"loop", "builds_req", "yielded", "done", "raised", "closed"} /\ i >= 1

Is500(r) == r.type = "HTTPError" /\ r.status = 500
IsOtherFailure(r) == (r.type = "HTTPError" /\ r.status # 500) \/ r.type = "RetryError"
IsHTTPFailure(r) == r.type \in {"HTTPError", "RetryError"}
IsEmptyPayload(r) == r.type = "none" \/ (r.type = "ok" /\ r.kind = "empty")
IsUnparsable(r) == r.type = "ok" /\ r.kind = "garbage"
HasBuilds(r) == r.type = "ok" /\ r.kind = "builds"
IsSkipKind(r) == Is500(r) \/ IsEmptyPayload(r) \/ IsUnparsable(r)

\* the builds of the jobs visited so far whose payload held builds, in order
RECURSIVE ExpectedOut(_)
ExpectedOut(vs) ==
    IF vs = <<>> THEN <<>>
    ELSE LET last == vs[Len(vs)]
         IN  ExpectedOut(SubSeq(vs, 1, Len(vs) - 1)) \o
             (IF HasBuilds(last.resp) THEN BuildsOf(last.name, last.resp.n) ELSE <<>>)

SkipVisits == {p \in 1..Len(visits) : IsSkipKind(visits[p].resp)}

\* the visits whose builds have all been handed out
ProcessedVisits == {p \in 1..Len(visits) : HasBuilds(visits[p].resp) /\ p < i}

\* C1: in a live Jenkins run whose failing builds requests all fail with
\* status 500, the run does not raise, and when it completes it has yielded
\* exactly the builds of the jobs with a parsable payload, in listing order,
\* and skipped counts exactly the unavailable, empty and unparsable jobs.
C1_FaultIsolation ==
    (IsJenkins /\ run = "live" /\ Walking
        /\ \A p \in 1..Len(visits) :
              IsHTTPFailure(visits[p].resp) => Is500(visits[p].resp))
    => /\ pc # "raised"
       /\ pc = "done" => /\ out = ExpectedOut(visits)
                         /\ skipped = Cardinality(SkipVisits)
                         /\ Len(visits) = Len(jobs)

\* C2 as stated: every HTTP-level failure of a builds request, whatever its
\* status and also an exhausted retry budget, is counted as skipped and the
\* walk goes on to the next job.
C2_AnyFailureSkipped ==
    [][(IsJenkins /\ Len(visits') = Len(visits) + 1
          /\ IsHTTPFailure(visits'[Len(visits')].resp))
       => (skipped' = skipped + 1 /\ pc' = "loop" /\ i' = i + 1)]_vars

\* C2 amended: a builds request that fails with status 500 is counted as
\* skipped and the walk goes on to the next job; a builds request that fails
\* with any other status, or with an exhausted retry budget, aborts the run
\* with that error and is not counted.
C2_Only500Skipped ==
    [][(IsJenkins /\ Len(visits') = Len(visits) + 1)
       => /\ Is500(visits'[Len(visits')].resp)
              => (skipped' = skipped + 1 /\ pc' = "loop" /\ i' = i + 1)
          /\ IsOtherFailure(visits'[Len(visits')].resp)
              => (skipped' = skipped /\ pc' = "raised"
                  /\ error' = visits'[Len(visits')].resp.type)]_vars

\* a job was skipped on a 500 and a later job aborted the run on another failure
C2_Witness ==
    /\ IsJenkins
    /\ pc = "raised"
    /\ Len(visits) = 2
    /\ Is500(visits[1].resp)
    /\ IsOtherFailure(visits[2].resp)
    /\ skipped = 1

\* a query with at least one keyword that is not blank
ValidKeywords(kws) == \E k \in 1..Len(kws) : strip(kws[k]) # <<>>

HasDigit(text) == \E k \in 1..Len(text) : text[k] \in Digits

\* C3: once a GoogleHits call for a valid keyword list has received a page whose marker is present, it
\* does not raise and hands out exactly one item; hits is 0 when the marker
\* text has no digit and otherwise the first run of digits of the text without
\* ',' and '.'; the call ends at the next pull.
C3_OneItem ==
    (IsHits /\ ValidKeywords(keywords) /\ run = "live" /\ visits # <<>>
        /\ visits[1].resp.type = "ok" /\ visits[1].resp.marker)
    => /\ pc \in {"yielded", "done", "closed"}
       /\ Len(out) = 1
       /\ out[1].hits =
             IF HasDigit(visits[1].resp.text)
             THEN int(re_search_digits(replace(replace(visits[1].resp.text, ","), ".")))
             ELSE 0

\* C6: in a call for a valid keyword list, a page without the marker makes the
\* call fail and yield nothing, and no page with the marker makes parsing fail.
C6_OnlyMissingMarker ==
    (IsHits /\ ValidKeywords(keywords) /\ visits # <<>> /\ visits[1].resp.type = "ok")
    => /\ ~visits[1].resp.marker => (pc = "raised" /\ out = <<>>)
       /\ pc = "raised" => ~visits[1].resp.marker

\* C7: a GoogleHits connector whose keyword list is empty or holds only blank
\* keywords is never constructed: construction ends in a configuration error,
\* no client is built and no request is issued.
C7_BlankRejected ==
    (IsHits /\ pc # "new"
        /\ \A k \in 1..Len(keywords) : strip(keywords[k]) = <<>>)
    => (pc = "config_error" /\ ~client.built /\ requests = <<>>)

\* C8: a Jenkins connector given exactly one of user and api_token ends its
\* construction in a configuration error with no client built and no request
\* issued; every request carries the pair (user, api_token) when both were
\* given and no credentials otherwise.
C8_AuthPairing ==
    IsJenkins =>
       /\ (pc # "new" /\ Truthy(user) # Truthy(api_token))
            => /\ pc = "config_error"
               /\ error = "BackendError"
               /\ ~client.built
               /\ requests = <<>>
       /\ \A p \in 1..Len(requests) :
            /\ (requests[p].auth # NoAuth) <=> (Truthy(user) /\ Truthy(api_token))
            /\ requests[p].auth # NoAuth => requests[p].auth = <<user, api_token>>

\* construction was refused for a token given without a user
C8_Witness ==
    /\ IsJenkins
    /\ pc = "config_error"
    /\ ~Truthy(user)
    /\ Truthy(api_token)

\* C4: no request is issued for a job of the deny-list, get_builds returns no
\* data for it, none of its builds is yielded, and a completed live run has
\* requested exactly the jobs of the listing that are not on the deny-list.
C4_DenyList ==
    IsJenkins =>
       /\ \A p \in 1..Len(requests) :
            requests[p].pos >= 1 =>
               /\ jobs[requests[p].pos] \notin blacklist_ids
               /\ requests[p].sig = <<"job", jobs[requests[p].pos]>>
       /\ \A p \in 1..Len(visits) :
            visits[p].name \in blacklist_ids => visits[p].resp = NoData
       /\ \A p \in 1..Len(out) : out[p].url[1] \notin blacklist_ids
       /\ (pc = "done" /\ run = "live") =>
            {requests[p].pos : p \in 1..Len(requests)} \ {0}
               = {q \in 1..Len(jobs) : jobs[q] \notin blacklist_ids}

\* a completed live run over a denied job and a job that yielded builds
C4_Witness ==
    /\ IsJenkins
    /\ run = "live"
    /\ pc = "done"
    /\ \E p \in 1..Len(jobs) : jobs[p] \in blacklist_ids
    /\ out # <<>>

CountField(item) == IF IsJenkins THEN item.number ELSE item.hits

C9_State ==
    IsJenkins =>
       /\ pulls = 0 => (requests = <<>> /\ inflight = {})
       /\ Cardinality(inflight) <= 1
       /\ pc \in {"jobs_req", "loop", "builds_req"} => pulls = Len(out) + 1
       /\ pc = "yielded" => pulls = Len(out)
       /\ \A p, q \in 1..Len(requests) : p < q => requests[p].pos < requests[q].pos
       /\ \A p \in 1..Len(requests) : requests[p].pos <= i
       /\ pc \in {"loop", "builds_req"} => out = ExpectedOut(visits)
       /\ pc = "yielded" =>
            /\ \A k \in 1..Len(builds) : builds[k].url[1] = jobs[i]
            /\ out = ExpectedOut(SubSeq(visits, 1, i - 1)) \o SubSeq(builds, 1, b)

\* C9: nothing is requested before the first pull; the generator runs only
\* while the caller waits for an item; requests follow the listing order and
\* the builds request of a job is issued only when every build of the jobs
\* before it has been pulled; at most one request is in flight and the builds
\* held are those of the current job; after the iteration is abandoned no
\* request is issued.
C9_DemandDriven ==
    /\ []C9_State
    /\ [][pc = "closed" => (requests' = requests /\ inflight' = inflight)]_vars

\* the request of the second job is in flight after both builds of the first were pulled
C9_Witness ==
    /\ IsJenkins
    /\ run = "live"
    /\ pc = "builds_req"
    /\ i = 2
    /\ Len(out) = 2
    /\ pulls = 3
    /\ inflight = {<<"job", jobs[2]>>}

\* C10: every job visited to its end is counted once, in skipped (unavailable,
\* denied, empty or unparsable) or in njobs (payload with a builds list, even
\* an empty one); a run that completes has skipped + njobs = number of jobs.
C10_Accounting ==
    (IsJenkins /\ Walking) =>
       /\ skipped = Cardinality(SkipVisits)
       /\ njobs = Cardinality(ProcessedVisits)
       /\ SkipVisits \cap ProcessedVisits = {}
       /\ skipped + njobs = (IF pc \in {"loop", "done"} THEN i - 1
                             ELSE IF pc = "builds_req" THEN i - 1
                             ELSE Len(visits) - 1)
       /\ pc = "done" => skipped + njobs = Len(jobs)
       /\ \A p \in 1..Len(visits) :
            IsBlacklisted(blacklist_ids, visits[p].name) => p \in SkipVisits
       /\ \A p \in 1..Len(visits) :
            (HasBuilds(visits[p].resp) /\ visits[p].resp.n = 0 /\ p < i)
               => p \in ProcessedVisits

\* a completed run over a denied job and a job with an empty builds list
C10_Witness ==
    /\ IsJenkins
    /\ pc = "done"
    /\ Len(jobs) = 2
    /\ skipped = 1
    /\ njobs = 1
    /\ out = <<>>
    /\ \E p \in 1..2 : visits[p].resp = NoData

====
